---- MODULE Spec2Model ----
(***************************************************************************)
(* A model of the MCP filesystem server: the dispatcher of                 *)
(* server/server.go, the envelope constructors of mcp/types.go and the     *)
(* FilesystemProvider (resolvePath and the list/read/write/delete tools,   *)
(* the file/directory resources).                                          *)
(*                                                                         *)
(* Go strings that the code inspects character by character (paths, tool   *)
(* and resource identifiers) are sequences of one-character strings; file  *)
(* contents are sequences of byte values; strings the code only compares   *)
(* or copies (status, error codes, request ids) are TLA+ strings.          *)
(***************************************************************************)
EXTENDS Integers, Sequences, FiniteSets, TLC

VARIABLES
    Providers,   \* MCPServer.Providers: provider name -> provider
    fs,          \* the filesystem: clean absolute path -> node
    cwdLive,     \* the process working directory has not been removed
    pc,          \* "idle", or "replied" while a response is in flight
    req,         \* the request (or call) being answered
    provResult,  \* what the provider returned to the dispatcher
    resp,        \* the response in flight
    touched      \* locations the request read, listed, created, wrote or removed

vars == <<Providers, fs, cwdLive, pc, req, provResult, resp, touched>>

----------------------------------------------------------------------------
(* Go's strings package, on sequences of characters.                       *)

HasPrefix(s, prefix) ==
    /\ Len(prefix) <= Len(s)
    /\ SubSeq(s, 1, Len(prefix)) = prefix

Contains(s, substr) ==
    \E i \in 1..(Len(s) - Len(substr) + 1) : SubSeq(s, i, i + Len(substr) - 1) = substr

\* strings.Split(s, sep) for a one-character separator: n separators give n+1 parts.
RECURSIVE SplitFrom(_, _, _)
SplitFrom(s, sep, cur) ==
    IF s = <<>> THEN <<cur>>
    ELSE IF Head(s) = sep THEN <<cur>> \o SplitFrom(Tail(s), sep, <<>>)
    ELSE SplitFrom(Tail(s), sep, Append(cur, Head(s)))

Split(s, sep) == SplitFrom(s, sep, <<>>)

RECURSIVE JoinWith(_, _)
JoinWith(parts, sep) ==
    IF parts = <<>> THEN <<>>
    ELSE IF Len(parts) = 1 THEN parts[1]
    ELSE parts[1] \o <<sep>> \o JoinWith(Tail(parts), sep)

----------------------------------------------------------------------------
(* Go's path/filepath package (Unix).                                      *)

DOT    == <<".">>
DOTDOT == <<".", ".">>
SLASH  == <<"/">>

IsAbs(path) == Len(path) > 0 /\ path[1] = "/"

\* The elements Clean keeps: empty and "." elements are dropped, a ".." removes
\* the element before it, is dropped at the root of a rooted path and is kept
\* at the front of a relative one.
RECURSIVE CleanElems(_, _, _)
CleanElems(elems, rooted, out) ==
    IF elems = <<>> THEN out
    ELSE LET e == Head(elems)
             rest == Tail(elems)
         IN  IF e = <<>> \/ e = DOT THEN CleanElems(rest, rooted, out)
             ELSE IF e = DOTDOT THEN
                 IF out # <<>> /\ out[Len(out)] # DOTDOT
                 THEN CleanElems(rest, rooted, SubSeq(out, 1, Len(out) - 1))
                 ELSE IF rooted THEN CleanElems(rest, rooted, out)
                 ELSE CleanElems(rest, rooted, Append(out, e))
             ELSE CleanElems(rest, rooted, Append(out, e))

Clean(path) ==
    LET rooted == IsAbs(path)
        body == JoinWith(CleanElems(Split(path, "/"), rooted, <<>>), "/")
    IN  IF rooted THEN SLASH \o body
        ELSE IF body = <<>> THEN DOT
        ELSE body

\* filepath.Join of two elements: empty elements are ignored, the result is cleaned.
Join(a, b) ==
    IF a = <<>> /\ b = <<>> THEN <<>>
    ELSE IF a = <<>> THEN Clean(b)
    ELSE IF b = <<>> THEN Clean(a)
    ELSE Clean(a \o SLASH \o b)

\* filepath.Dir: the path up to its last separator, cleaned.
RECURSIVE LastSlash(_)
LastSlash(path) ==
    IF path = <<>> THEN 0
    ELSE IF path[Len(path)] = "/" THEN Len(path)
    ELSE LastSlash(SubSeq(path, 1, Len(path) - 1))

Dir(path) == Clean(SubSeq(path, 1, LastSlash(path)))

\* The working directory of the server process.
Cwd == <<"/", "w">>

\* filepath.Abs: fails when the working directory cannot be determined.
Abs(path, live) ==
    IF IsAbs(path) THEN [err |-> "", path |-> Clean(path)]
    ELSE IF ~live THEN [err |-> "getwd: no such file or directory", path |-> <<>>]
    ELSE [err |-> "", path |-> Join(Cwd, path)]

----------------------------------------------------------------------------
(* FilesystemProvider.resolvePath                                          *)

NewFilesystemProvider(root) == [rootDir |-> root]

\* resolvePath without the test for a leading "..".
resolvePathNoEscapeCheck(p, path, live) ==
    IF IsAbs(path) THEN [err |-> "", path |-> path]
    ELSE LET absPath == Abs(Join(p.rootDir, Clean(path)), live)
         IN  IF absPath.err # "" THEN [err |-> absPath.err, path |-> <<>>]
             ELSE IF IsAbs(p.rootDir)
                     /\ ~HasPrefix(absPath.path, Abs(p.rootDir, live).path)
             THEN [err |-> "path is outside of root directory", path |-> <<>>]
             ELSE [err |-> "", path |-> absPath.path]

\* resolvePath looking for "/../" only, not for a leading "..".
resolvePathMiddleOnly(p, path, live) ==
    IF IsAbs(path) THEN [err |-> "", path |-> path]
    ELSE IF Contains(Clean(path), <<"/", ".", ".", "/">>)
    THEN [err |-> "path attempts to access parent directory outside of root",
          path |-> <<>>]
    ELSE resolvePathNoEscapeCheck(p, path, live)

\* resolvePath without the early return for an absolute path.
resolvePathAbsoluteJoined(p, path, live) ==
    LET cleanPath == Clean(path) IN
    IF HasPrefix(cleanPath, DOTDOT) \/ Contains(cleanPath, <<"/", ".", ".", "/">>)
    THEN [err |-> "path attempts to access parent directory outside of root",
          path |-> <<>>]
    ELSE resolvePathNoEscapeCheck(p, <<".", "/">> \o cleanPath, live)

\* resolvePath taking the path from the working directory, not from the root.
resolvePathNoRoot(p, path, live) ==
    IF IsAbs(path) THEN [err |-> "", path |-> path]
    ELSE IF HasPrefix(Clean(path), DOTDOT) \/ Contains(Clean(path), <<"/", ".", ".", "/">>)
    THEN [err |-> "path attempts to access parent directory outside of root",
          path |-> <<>>]
    ELSE IF Abs(Clean(path), live).err # ""
    THEN [err |-> Abs(Clean(path), live).err, path |-> <<>>]
    ELSE IF IsAbs(p.rootDir)
            /\ ~HasPrefix(Abs(Clean(path), live).path, Abs(p.rootDir, live).path)
    THEN [err |-> "path is outside of root directory", path |-> <<>>]
    ELSE [err |-> "", path |-> Abs(Clean(path), live).path]

resolvePath(p, path, live) ==
    IF IsAbs(path) THEN [err |-> "", path |-> path]
    ELSE LET cleanPath == Clean(path) IN
        IF HasPrefix(cleanPath, DOTDOT) \/ Contains(cleanPath, <<"/", ".", ".", "/">>)
        THEN [err |-> "path attempts to access parent directory outside of root",
              path |-> <<>>]
        ELSE LET fullPath == Join(p.rootDir, cleanPath)
                 absPath == Abs(fullPath, live)
             IN  IF absPath.err # "" THEN [err |-> absPath.err, path |-> <<>>]
                 ELSE IF IsAbs(p.rootDir)
                         /\ ~HasPrefix(absPath.path, Abs(p.rootDir, live).path)
                 THEN [err |-> "path is outside of root directory", path |-> <<>>]
                 ELSE [err |-> "", path |-> absPath.path]

----------------------------------------------------------------------------
(* The filesystem behind the os package: a map from clean absolute paths   *)
(* to nodes. Every entry's parent is a directory of the map and "/" is     *)
(* always a directory.                                                     *)

DirNode == [kind |-> "dir", data |-> <<>>]
FileNode(data) == [kind |-> "file", data |-> data]

Child(dir, name) == IF dir = SLASH THEN SLASH \o name ELSE dir \o SLASH \o name

Base(path) == SubSeq(path, LastSlash(path) + 1, Len(path))

Under(path, dir) == path = dir \/ HasPrefix(path, Child(dir, <<>>))

\* The kernel's path walk from "/": the node an absolute path names, or why
\* it names none. On ENOENT, path is the location a create would make (empty
\* when a directory on the way is missing too).
RECURSIVE Walk(_, _, _)
Walk(f, cur, elems) ==
    IF elems = <<>> THEN [err |-> "", path |-> cur]
    ELSE LET e == Head(elems)
             rest == Tail(elems)
         IN  IF e = <<>> THEN Walk(f, cur, rest)
             ELSE IF f[cur].kind # "dir" THEN [err |-> "ENOTDIR", path |-> <<>>]
             ELSE IF e = DOT THEN Walk(f, cur, rest)
             ELSE IF e = DOTDOT THEN Walk(f, Dir(cur), rest)
             ELSE IF Child(cur, e) \in DOMAIN f THEN Walk(f, Child(cur, e), rest)
             ELSE [err |-> "ENOENT", path |-> IF rest = <<>> THEN Child(cur, e) ELSE <<>>]

Lookup(f, path) == Walk(f, SLASH, Split(path, "/"))

\* os.Stat
Stat(f, path) ==
    LET at == Lookup(f, path)
    IN  [err |-> at.err, IsDir |-> at.err = "" /\ f[at.path].kind = "dir"]

\* os.IsNotExist
IsNotExist(err) == err = "ENOENT"

\* Byte order of the characters of names, for the sorted order of os.ReadDir.
Ord(c) == CASE c = "." -> 46 [] c = "/" -> 47 [] c = "a" -> 97 [] c = "b" -> 98
            [] c = "d" -> 100 [] c = "f" -> 102 [] c = "g" -> 103 [] c = "n" -> 110
            [] c = "o" -> 111 [] c = "w" -> 119 [] c = "x" -> 120 [] OTHER -> 0

RECURSIVE LessStr(_, _)
LessStr(a, b) ==
    IF b = <<>> THEN FALSE
    ELSE IF a = <<>> THEN TRUE
    ELSE IF Head(a) # Head(b) THEN Ord(Head(a)) < Ord(Head(b))
    ELSE LessStr(Tail(a), Tail(b))

RECURSIVE SortPaths(_)
SortPaths(S) ==
    IF S = {} THEN <<>>
    ELSE LET m == CHOOSE x \in S : \A y \in S \ {x} : LessStr(x, y)
         IN  <<m>> \o SortPaths(S \ {m})

\* The node an existing path names.
Location(f, path) == Lookup(f, path).path

\* os.ReadDir of an existing directory: its immediate children, sorted by name.
ReadDir(f, path) ==
    LET dir == Location(f, path)
    IN  SortPaths({q \in DOMAIN f : q # SLASH /\ Dir(q) = dir})

\* os.ReadFile of an existing file.
ReadFile(f, path) == f[Location(f, path)].data

\* os.MkdirAll of a clean absolute path: the missing ancestors are made from
\* the top down, so a file on the way fails the call before anything is made.
RECURSIVE MkdirAll(_, _)
MkdirAll(f, path) ==
    IF path \in DOMAIN f THEN
        IF f[path].kind = "dir" THEN [err |-> "", fs |-> f, made |-> {}]
        ELSE [err |-> "ENOTDIR", fs |-> f, made |-> {}]
    ELSE LET up == MkdirAll(f, Dir(path)) IN
        IF up.err # "" THEN up
        ELSE [err |-> "", fs |-> up.fs @@ (path :> DirNode), made |-> up.made \cup {path}]

\* os.WriteFile: open with O_WRONLY|O_CREATE|O_TRUNC, then write.
WriteFile(f, path, data) ==
    LET at == Lookup(f, path) IN
    IF at.err = "" THEN
        IF f[at.path].kind = "dir" THEN [err |-> "EISDIR", fs |-> f, at |-> <<>>]
        ELSE [err |-> "", fs |-> [f EXCEPT ![at.path] = FileNode(data)], at |-> at.path]
    ELSE IF at.err = "ENOENT" /\ at.path # <<>> THEN
        [err |-> "", fs |-> f @@ (at.path :> FileNode(data)), at |-> at.path]
    ELSE [err |-> at.err, fs |-> f, at |-> <<>>]

Subtree(f, path) == {q \in DOMAIN f : Under(q, path)}

Without(f, gone) == [q \in DOMAIN f \ gone |-> f[q]]

\* os.Remove of an existing path: a file or an empty directory.
Remove(f, path) ==
    LET at == Lookup(f, path).path IN
    IF at = SLASH THEN [err |-> "EBUSY", fs |-> f, gone |-> {}]
    ELSE IF Subtree(f, at) # {at} THEN [err |-> "ENOTEMPTY", fs |-> f, gone |-> {}]
    ELSE [err |-> "", fs |-> Without(f, {at}), gone |-> {at}]

\* os.RemoveAll of an existing path: the whole subtree; of "/" everything
\* beneath it goes and the removal of "/" itself fails.
RemoveAll(f, path) ==
    LET at == Lookup(f, path).path IN
    IF at = SLASH
    THEN [err |-> "EBUSY", fs |-> Without(f, DOMAIN f \ {SLASH}), gone |-> DOMAIN f \ {SLASH}]
    ELSE [err |-> "", fs |-> Without(f, Subtree(f, at)), gone |-> Subtree(f, at)]

----------------------------------------------------------------------------
(* encoding/base64, StdEncoding, on sequences of byte values.              *)

B64Char(i) ==
    IF i < 26 THEN 65 + i
    ELSE IF i < 52 THEN 97 + (i - 26)
    ELSE IF i < 62 THEN 48 + (i - 52)
    ELSE IF i = 62 THEN 43
    ELSE 47

B64Val(c) ==
    IF c >= 65 /\ c <= 90 THEN c - 65
    ELSE IF c >= 97 /\ c <= 122 THEN c - 97 + 26
    ELSE IF c >= 48 /\ c <= 57 THEN c - 48 + 52
    ELSE IF c = 43 THEN 62
    ELSE IF c = 47 THEN 63
    ELSE -1

RECURSIVE EncodeToString(_)
EncodeToString(data) ==
    IF data = <<>> THEN <<>>
    ELSE IF Len(data) = 1 THEN
        LET v == data[1] * 65536
        IN  <<B64Char(v \div 262144), B64Char((v \div 4096) % 64), 61, 61>>
    ELSE IF Len(data) = 2 THEN
        LET v == data[1] * 65536 + data[2] * 256
        IN  <<B64Char(v \div 262144), B64Char((v \div 4096) % 64),
              B64Char((v \div 64) % 64), 61>>
    ELSE
        LET v == data[1] * 65536 + data[2] * 256 + data[3]
        IN  <<B64Char(v \div 262144), B64Char((v \div 4096) % 64),
              B64Char((v \div 64) % 64), B64Char(v % 64)>>
            \o EncodeToString(SubSeq(data, 4, Len(data)))

\* One quantum of four characters at a time; padding is required and only the
\* last quantum may carry it; the bits left over in a padded quantum are ignored.
RECURSIVE DecodeQuanta(_)
DecodeQuanta(s) ==
    IF s = <<>> THEN [err |-> "", data |-> <<>>]
    ELSE IF Len(s) < 4 THEN [err |-> "illegal base64 data", data |-> <<>>]
    ELSE LET a == B64Val(s[1])
             b == B64Val(s[2])
             c == B64Val(s[3])
             d == B64Val(s[4])
             rest == SubSeq(s, 5, Len(s))
         IN  IF a < 0 \/ b < 0 THEN [err |-> "illegal base64 data", data |-> <<>>]
             ELSE IF c >= 0 /\ d >= 0 THEN
                 LET v == a * 262144 + b * 4096 + c * 64 + d
                     more == DecodeQuanta(rest)
                 IN  IF more.err # "" THEN more
                     ELSE [err |-> "",
                           data |-> <<v \div 65536, (v \div 256) % 256, v % 256>> \o more.data]
             ELSE IF s[3] = 61 /\ s[4] = 61 /\ rest = <<>> THEN
                 [err |-> "", data |-> <<(a * 4 + b \div 16) % 256>>]
             ELSE IF c >= 0 /\ s[4] = 61 /\ rest = <<>> THEN
                 LET v == a * 4096 + b * 64 + c
                 IN  [err |-> "", data |-> <<v \div 1024, (v \div 4) % 256>>]
             ELSE [err |-> "illegal base64 data", data |-> <<>>]

\* Carriage returns and line feeds are skipped.
DecodeString(s) == DecodeQuanta(SelectSeq(s, LAMBDA ch : ch # 10 /\ ch # 13))

----------------------------------------------------------------------------
(* mcp/types.go: arguments, results and their constructors.                *)

\* A JSON value under a key of the arguments: a string, a boolean, another
\* type, or no value at all. s is the string, b the boolean.
Absent == [t |-> "absent"]
AStr(s) == [t |-> "string", s |-> s]
ABool(b) == [t |-> "bool", b |-> b]
ANumber == [t |-> "number"]

\* A Go type assertion to string or to bool.
IsString(v) == v.t = "string"
IsBool(v) == v.t = "bool"

Nil == [nil |-> TRUE]

\* fmt.Sprintf of a format with one %s: a path, or the text of an error.
Sprintf(format, path, err) == [format |-> format, path |-> path, err |-> err]
Message(text) == Sprintf(text, <<>>, "")

ParseID(id) == Split(id, ".")

NewToolResultText(text) ==
    [RequestID |-> "", Status |-> "success",
     Result |-> [type |-> "text", text |-> text], Error |-> Nil]

NewToolResultJSON(data) ==
    [RequestID |-> "", Status |-> "success",
     Result |-> [type |-> "json", json |-> data], Error |-> Nil]

\* NewToolResultError leaving the error information out.
NewToolResultErrorNoInfo(message) ==
    [RequestID |-> "", Status |-> "error", Result |-> Nil, Error |-> Nil]

NewToolResultError(message) ==
    [RequestID |-> "", Status |-> "error", Result |-> Nil,
     Error |-> [Code |-> "execution_error", Message |-> message]]

NewResourceResultJSON(data) ==
    [RequestID |-> "", Status |-> "success",
     Content |-> [type |-> "json", json |-> data], Error |-> Nil]

\* NewResourceResultError with the code of the tools.
NewResourceResultErrorToolCode(message) ==
    [RequestID |-> "", Status |-> "error", Content |-> Nil,
     Error |-> [Code |-> "execution_error", Message |-> message]]

NewResourceResultError(message) ==
    [RequestID |-> "", Status |-> "error", Content |-> Nil,
     Error |-> [Code |-> "resource_error", Message |-> message]]

FileContent(path, content, isText) ==
    [Path |-> path, Content |-> content, IsText |-> isText]

DirectoryContent(path, files) == [Path |-> path, Files |-> files]

\* A FileInfo whose path is the entry's name, not joined with the request path.
FileInfoNameOnly(f, pathParam, entry) ==
    [Name |-> Base(entry), Path |-> Base(entry),
     Size |-> Len(f[entry].data), IsDir |-> f[entry].kind = "dir"]

\* A FileInfo of a directory entry; a directory's size and the modification
\* times are the filesystem's and are left out.
FileInfo(f, pathParam, entry) ==
    [Name |-> Base(entry), Path |-> Join(pathParam, Base(entry)),
     Size |-> Len(f[entry].data), IsDir |-> f[entry].kind = "dir"]

----------------------------------------------------------------------------
(* FilesystemProvider: the four tools. Each takes the provider, the        *)
(* request, the filesystem and whether the working directory is live, and  *)
(* gives the result, the filesystem it leaves and the system calls made.   *)
(* A handler is written as its successive steps, each handing what it      *)
(* computed to the next.                                                   *)

Call(name, path) == [call |-> name, path |-> path]

Out(result, f, calls) == [result |-> result, fs |-> f, calls |-> calls]

\* A result that carries a fresh identifier instead of the request's.
WithRequestIDGenerated(result, request) == [result EXCEPT !.RequestID = "generated"]

\* result.RequestID = request.RequestID
WithRequestID(result, request) == [result EXCEPT !.RequestID = request.RequestID]

ToolError(request, message, f, calls) ==
    Out(WithRequestID(NewToolResultError(message), request), f, calls)

\* The encoding compared without regard to case.
EncodingOfAnyCase(v) ==
    IF IsString(v) THEN (IF v.s = "BASE64" THEN "base64" ELSE v.s) ELSE "text"

\* encoding := "text"; if the argument is a string, encoding = the argument
EncodingOf(v) == IF IsString(v) THEN v.s ELSE "text"

\* recursive defaulting to true.
RecursiveOfDefaultTrue(v) == IF IsBool(v) THEN v.b ELSE TRUE

\* recursive := false; if the argument is a bool, recursive = the argument
RecursiveOf(v) == IF IsBool(v) THEN v.b ELSE FALSE

listDirectoryEntries(request, pathParam, f, calls, entries) ==
    Out(WithRequestID(NewToolResultJSON(DirectoryContent(pathParam,
            [i \in 1..Len(entries) |-> FileInfo(f, pathParam, entries[i])])), request),
        f, calls)

listDirectoryStatted(request, pathParam, f, fullPath, info, stat) ==
    IF info.err # "" THEN
        IF IsNotExist(info.err)
        THEN ToolError(request, Sprintf("Directory not found: %s", pathParam, ""), f, stat)
        ELSE ToolError(request, Sprintf("Error accessing directory: %s", <<>>, info.err), f, stat)
    ELSE IF ~info.IsDir
    THEN ToolError(request, Sprintf("Path is not a directory: %s", pathParam, ""), f, stat)
    ELSE listDirectoryEntries(request, pathParam, f,
             stat \cup {Call("list", Location(f, fullPath))}, ReadDir(f, fullPath))

listDirectoryResolved(request, pathParam, f, resolved) ==
    IF resolved.err # ""
    THEN ToolError(request, Sprintf("Invalid path: %s", <<>>, resolved.err), f, {})
    ELSE listDirectoryStatted(request, pathParam, f, resolved.path, Stat(f, resolved.path),
             {Call("stat", resolved.path)})

listDirectory(p, request, f, live) ==
    IF ~IsString(request.Arguments.path)
    THEN ToolError(request, Message("Path parameter is required and must be a string"), f, {})
    ELSE listDirectoryResolved(request, request.Arguments.path.s, f,
             resolvePath(p, request.Arguments.path.s, live))

\* readFile returning the bytes as text whatever the encoding.
readFileDataAlwaysText(request, pathParam, encoding, f, calls, data) ==
    Out([NewToolResultJSON(FileContent(pathParam, data, TRUE))
            EXCEPT !.RequestID = request.RequestID], f, calls)

readFileData(request, pathParam, encoding, f, calls, data) ==
    Out(WithRequestID(NewToolResultJSON(FileContent(pathParam,
            IF encoding = "base64" THEN EncodeToString(data) ELSE data,
            encoding # "base64")), request),
        f, calls)

readFileStatted(request, pathParam, encoding, f, fullPath, info, stat) ==
    IF info.err # "" THEN
        IF IsNotExist(info.err)
        THEN ToolError(request, Sprintf("File not found: %s", pathParam, ""), f, stat)
        ELSE ToolError(request, Sprintf("Error accessing file: %s", <<>>, info.err), f, stat)
    ELSE IF info.IsDir
    THEN ToolError(request, Sprintf("Path is a directory, not a file: %s", pathParam, ""), f, stat)
    ELSE readFileData(request, pathParam, encoding, f,
             stat \cup {Call("read", Location(f, fullPath))}, ReadFile(f, fullPath))

readFileResolved(request, pathParam, encoding, f, resolved) ==
    IF resolved.err # ""
    THEN ToolError(request, Sprintf("Invalid path: %s", <<>>, resolved.err), f, {})
    ELSE readFileStatted(request, pathParam, encoding, f, resolved.path,
             Stat(f, resolved.path), {Call("stat", resolved.path)})

readFile(p, request, f, live) ==
    IF ~IsString(request.Arguments.path)
    THEN ToolError(request, Message("Path parameter is required and must be a string"), f, {})
    ELSE readFileResolved(request, request.Arguments.path.s, EncodingOf(request.Arguments.encoding), f,
             resolvePath(p, request.Arguments.path.s, live))

writeFileWritten(request, pathParam, calls, wr) ==
    IF wr.err # ""
    THEN ToolError(request, Sprintf("Error writing file: %s", <<>>, wr.err), wr.fs, calls)
    ELSE Out(WithRequestID(NewToolResultText(
                 Sprintf("File written successfully: %s", pathParam, "")), request),
             wr.fs, calls \cup {Call("write", wr.at)})

writeFileDecoded(request, pathParam, fullPath, f, calls, decoded) ==
    IF decoded.err # ""
    THEN ToolError(request, Sprintf("Error decoding base64 content: %s", <<>>, decoded.err),
                   f, calls)
    ELSE writeFileWritten(request, pathParam, calls, WriteFile(f, fullPath, decoded.data))

writeFileMade(request, pathParam, contentParam, encoding, fullPath, mk, calls) ==
    IF mk.err # ""
    THEN ToolError(request, Sprintf("Error creating directory: %s", <<>>, mk.err), mk.fs, calls)
    ELSE writeFileDecoded(request, pathParam, fullPath, mk.fs, calls,
             IF encoding = "base64" THEN DecodeString(contentParam)
             ELSE [err |-> "", data |-> contentParam])

writeFileParent(request, pathParam, contentParam, encoding, fullPath, mk) ==
    writeFileMade(request, pathParam, contentParam, encoding, fullPath, mk,
        {Call("stat", Dir(fullPath))} \cup {Call("mkdir", d) : d \in mk.made})

writeFileResolved(request, pathParam, contentParam, encoding, f, resolved) ==
    IF resolved.err # ""
    THEN ToolError(request, Sprintf("Invalid path: %s", <<>>, resolved.err), f, {})
    ELSE writeFileParent(request, pathParam, contentParam, encoding, resolved.path,
             MkdirAll(f, Dir(resolved.path)))

writeFile(p, request, f, live) ==
    IF ~IsString(request.Arguments.path)
    THEN ToolError(request, Message("Path parameter is required and must be a string"), f, {})
    ELSE IF ~IsString(request.Arguments.content)
    THEN ToolError(request, Message("Content parameter is required and must be a string"), f, {})
    ELSE writeFileResolved(request, request.Arguments.path.s, request.Arguments.content.s,
             EncodingOf(request.Arguments.encoding), f,
             resolvePath(p, request.Arguments.path.s, live))

deleteFileRemoved(request, pathParam, format, calls, rm) ==
    IF rm.err # ""
    THEN ToolError(request, Sprintf(format, <<>>, rm.err), rm.fs,
                   calls \cup {Call("remove", g) : g \in rm.gone})
    ELSE Out(WithRequestID(NewToolResultText(
                 Sprintf("Successfully deleted: %s", pathParam, "")), request),
             rm.fs, calls \cup {Call("remove", g) : g \in rm.gone})

deleteFileEntries(request, pathParam, f, fullPath, calls, entries) ==
    IF Len(entries) > 0
    THEN ToolError(request,
             Sprintf("Directory is not empty: %s. Use recursive=true to delete non-empty directories",
                     pathParam, ""), f, calls)
    ELSE deleteFileRemoved(request, pathParam, "Error deleting directory: %s", calls,
             Remove(f, fullPath))

\* deleteFile removing a directory with os.Remove even when recursive is true.
deleteFileStattedNeverRecursive(request, pathParam, recursive, f, fullPath, info, stat) ==
    IF info.err # "" THEN
        IF IsNotExist(info.err)
        THEN ToolError(request, Sprintf("File or directory not found: %s", pathParam, ""), f, stat)
        ELSE ToolError(request, Sprintf("Error accessing path: %s", <<>>, info.err), f, stat)
    ELSE deleteFileRemoved(request, pathParam,
             IF info.IsDir THEN "Error deleting directory: %s" ELSE "Error deleting file: %s",
             stat, Remove(f, fullPath))

deleteFileStatted(request, pathParam, recursive, f, fullPath, info, stat) ==
    IF info.err # "" THEN
        IF IsNotExist(info.err)
        THEN ToolError(request, Sprintf("File or directory not found: %s", pathParam, ""), f, stat)
        ELSE ToolError(request, Sprintf("Error accessing path: %s", <<>>, info.err), f, stat)
    ELSE IF info.IsDir THEN
        IF recursive
        THEN deleteFileRemoved(request, pathParam, "Error deleting directory: %s", stat,
                 RemoveAll(f, fullPath))
        ELSE deleteFileEntries(request, pathParam, f, fullPath,
                 stat \cup {Call("list", Location(f, fullPath))}, ReadDir(f, fullPath))
    ELSE deleteFileRemoved(request, pathParam, "Error deleting file: %s", stat,
             Remove(f, fullPath))

\* deleteFile looking the path up before it tests the resolver's error.
deleteFileResolvedStatFirst(request, pathParam, recursive, f, resolved) ==
    IF resolved.err # ""
    THEN ToolError(request, Sprintf("Invalid path: %s", <<>>, resolved.err), f,
                   {Call("stat", Clean(pathParam))})
    ELSE deleteFileStatted(request, pathParam, recursive, f, resolved.path,
             Stat(f, resolved.path), {Call("stat", resolved.path)})

deleteFileResolved(request, pathParam, recursive, f, resolved) ==
    IF resolved.err # ""
    THEN ToolError(request, Sprintf("Invalid path: %s", <<>>, resolved.err), f, {})
    ELSE deleteFileStatted(request, pathParam, recursive, f, resolved.path,
             Stat(f, resolved.path), {Call("stat", resolved.path)})

deleteFile(p, request, f, live) ==
    IF ~IsString(request.Arguments.path)
    THEN ToolError(request, Message("Path parameter is required and must be a string"), f, {})
    ELSE deleteFileResolved(request, request.Arguments.path.s,
             RecursiveOf(request.Arguments.recursive), f,
             resolvePath(p, request.Arguments.path.s, live))

----------------------------------------------------------------------------
(* FilesystemProvider: the two resources.                                  *)

ResourceError(request, message, f, calls) ==
    Out(WithRequestID(NewResourceResultError(message), request), f, calls)

loadDirectoryEntries(request, pathParam, f, calls, entries) ==
    Out(WithRequestID(NewResourceResultJSON(DirectoryContent(pathParam,
            [i \in 1..Len(entries) |-> FileInfo(f, pathParam, entries[i])])), request),
        f, calls)

loadDirectoryStatted(request, pathParam, f, fullPath, info, stat) ==
    IF info.err # "" THEN
        IF IsNotExist(info.err)
        THEN ResourceError(request, Sprintf("Directory not found: %s", pathParam, ""), f, stat)
        ELSE ResourceError(request, Sprintf("Error accessing directory: %s", <<>>, info.err), f, stat)
    ELSE IF ~info.IsDir
    THEN ResourceError(request, Sprintf("Path is not a directory: %s", pathParam, ""), f, stat)
    ELSE loadDirectoryEntries(request, pathParam, f,
             stat \cup {Call("list", Location(f, fullPath))}, ReadDir(f, fullPath))

loadDirectoryResolved(request, pathParam, f, resolved) ==
    IF resolved.err # ""
    THEN ResourceError(request, Sprintf("Invalid path: %s", <<>>, resolved.err), f, {})
    ELSE loadDirectoryStatted(request, pathParam, f, resolved.path, Stat(f, resolved.path),
             {Call("stat", resolved.path)})

loadDirectory(p, request, f, live) ==
    IF ~IsString(request.Params.path)
    THEN ResourceError(request, Message("Path parameter is required and must be a string"), f, {})
    ELSE loadDirectoryResolved(request, request.Params.path.s, f,
             resolvePath(p, request.Params.path.s, live))

\* loadFile returning the bytes as text whatever the encoding.
loadFileDataAlwaysText(request, pathParam, encoding, f, calls, data) ==
    Out(WithRequestID(NewResourceResultJSON(FileContent(pathParam, data, TRUE)), request),
        f, calls)

loadFileData(request, pathParam, encoding, f, calls, data) ==
    Out(WithRequestID(NewResourceResultJSON(FileContent(pathParam,
            IF encoding = "base64" THEN EncodeToString(data) ELSE data,
            encoding # "base64")), request),
        f, calls)

loadFileStatted(request, pathParam, encoding, f, fullPath, info, stat) ==
    IF info.err # "" THEN
        IF IsNotExist(info.err)
        THEN ResourceError(request, Sprintf("File not found: %s", pathParam, ""), f, stat)
        ELSE ResourceError(request, Sprintf("Error accessing file: %s", <<>>, info.err), f, stat)
    ELSE IF info.IsDir
    THEN ResourceError(request, Sprintf("Path is a directory, not a file: %s", pathParam, ""), f, stat)
    ELSE loadFileData(request, pathParam, encoding, f,
             stat \cup {Call("read", Location(f, fullPath))}, ReadFile(f, fullPath))

loadFileResolved(request, pathParam, encoding, f, resolved) ==
    IF resolved.err # ""
    THEN ResourceError(request, Sprintf("Invalid path: %s", <<>>, resolved.err), f, {})
    ELSE loadFileStatted(request, pathParam, encoding, f, resolved.path,
             Stat(f, resolved.path), {Call("stat", resolved.path)})

loadFile(p, request, f, live) ==
    IF ~IsString(request.Params.path)
    THEN ResourceError(request, Message("Path parameter is required and must be a string"), f, {})
    ELSE loadFileResolved(request, request.Params.path.s, EncodingOf(request.Params.encoding), f,
             resolvePath(p, request.Params.path.s, live))

----------------------------------------------------------------------------
(* FilesystemProvider: name, catalog and the two entry points.             *)

NameFilesystem == <<"f", "i", "l", "e", "s", "y", "s", "t", "e", "m">>
NameList       == <<"l", "i", "s", "t">>
NameRead       == <<"r", "e", "a", "d">>
NameWrite      == <<"w", "r", "i", "t", "e">>
NameDelete     == <<"d", "e", "l", "e", "t", "e">>
NameFile       == <<"f", "i", "l", "e">>
NameDirectory  == <<"d", "i", "r", "e", "c", "t", "o", "r", "y">>

GetName(p) == NameFilesystem

\* The catalog: each capability's identifier and its required parameters.
GetInfo(p) ==
    [Name |-> NameFilesystem,
     Tools |-> << [ID |-> NameFilesystem \o DOT \o NameList, Required |-> <<"path">>],
                  [ID |-> NameFilesystem \o DOT \o NameRead, Required |-> <<"path">>],
                  [ID |-> NameFilesystem \o DOT \o NameWrite,
                   Required |-> <<"path", "content">>],
                  [ID |-> NameFilesystem \o DOT \o NameDelete, Required |-> <<"path">>] >>,
     Resources |-> << [ID |-> NameFilesystem \o DOT \o NameFile, Required |-> <<"path">>],
                      [ID |-> NameFilesystem \o DOT \o NameDirectory,
                       Required |-> <<"path">>] >>]

UnknownTool(toolName, request) ==
    [RequestID |-> request.RequestID, Status |-> "error", Result |-> Nil,
     Error |-> [Code |-> "unknown_tool", Message |-> Sprintf("Unknown tool: %s", toolName, "")]]

\* CallTool whose default case falls into delete.
CallToolDefaultDelete(p, toolName, request, f, live) ==
    IF toolName = NameList THEN listDirectory(p, request, f, live)
    ELSE IF toolName = NameRead THEN readFile(p, request, f, live)
    ELSE IF toolName = NameWrite THEN writeFile(p, request, f, live)
    ELSE deleteFile(p, request, f, live)

CallTool(p, toolName, request, f, live) ==
    IF toolName = NameList THEN listDirectory(p, request, f, live)
    ELSE IF toolName = NameRead THEN readFile(p, request, f, live)
    ELSE IF toolName = NameWrite THEN writeFile(p, request, f, live)
    ELSE IF toolName = NameDelete THEN deleteFile(p, request, f, live)
    ELSE Out(UnknownTool(toolName, request), f, {})

UnknownResource(resourceName, request) ==
    [RequestID |-> request.RequestID, Status |-> "error", Content |-> Nil,
     Error |-> [Code |-> "unknown_resource",
                Message |-> Sprintf("Unknown resource: %s", resourceName, "")]]

LoadResource(p, resourceName, request, f, live) ==
    IF resourceName = NameFile THEN loadFile(p, request, f, live)
    ELSE IF resourceName = NameDirectory THEN loadDirectory(p, request, f, live)
    ELSE Out(UnknownResource(resourceName, request), f, {})

----------------------------------------------------------------------------
(* encoding/json of the response bodies, by the json tags of mcp/types.go: *)
(* a body is a function from the keys present to their values; result,     *)
(* content and error are omitted when empty.                               *)

MarshalFileInfo(fi) ==
    [name |-> fi.Name, path |-> fi.Path, size |-> fi.Size, is_dir |-> fi.IsDir]

MarshalData(data) ==
    IF "Files" \in DOMAIN data
    THEN [path |-> data.Path,
          files |-> [i \in 1..Len(data.Files) |-> MarshalFileInfo(data.Files[i])]]
    ELSE [path |-> data.Path, content |-> data.Content, is_text |-> data.IsText]

MarshalPayload(x) ==
    IF x.type = "text" THEN [type |-> "text", text |-> x.text]
    ELSE [type |-> "json", json |-> MarshalData(x.json)]

MarshalErrorInfo(e) == [code |-> e.Code, message |-> e.Message]

MarshalCallToolResult(r) ==
    [k \in {"request_id", "status"}
           \cup (IF r.Result # Nil THEN {"result"} ELSE {})
           \cup (IF r.Error # Nil THEN {"error"} ELSE {}) |->
        CASE k = "request_id" -> r.RequestID
          [] k = "status" -> r.Status
          [] k = "result" -> MarshalPayload(r.Result)
          [] k = "error" -> MarshalErrorInfo(r.Error)]

MarshalLoadResourceResult(r) ==
    [k \in {"request_id", "status"}
           \cup (IF r.Content # Nil THEN {"content"} ELSE {})
           \cup (IF r.Error # Nil THEN {"error"} ELSE {}) |->
        CASE k = "request_id" -> r.RequestID
          [] k = "status" -> r.Status
          [] k = "content" -> MarshalPayload(r.Content)
          [] k = "error" -> MarshalErrorInfo(r.Error)]

ErrorResponse(error, message) == [error |-> error, message |-> message]

----------------------------------------------------------------------------
(* server/server.go: the registry and the handlers.                        *)

ServerName == "Test Filesystem MCP Server"
ServerVersion == "1.0.0"
ServerDescription == "A test MCP server implementation"

\* NewMCPServer: no provider registered.
NewMCPServer == <<>>

\* RegisterProvider: the entry under the provider's name is set or replaced.
RegisterProvider(providers, provider) ==
    [n \in DOMAIN providers \cup {GetName(provider)} |->
        IF n = GetName(provider) THEN provider ELSE providers[n]]

\* parseToolID asking for at least two parts.
parseToolIDAtLeastTwo(toolID) ==
    IF Len(ParseID(toolID)) < 2
    THEN [err |-> "Invalid tool ID format. Expected: provider.tool",
          providerName |-> <<>>, name |-> <<>>]
    ELSE [err |-> "", providerName |-> ParseID(toolID)[1], name |-> ParseID(toolID)[2]]

parseToolID(toolID) ==
    LET parts == ParseID(toolID) IN
    IF Len(parts) # 2
    THEN [err |-> "Invalid tool ID format. Expected: provider.tool",
          providerName |-> <<>>, name |-> <<>>]
    ELSE [err |-> "", providerName |-> parts[1], name |-> parts[2]]

parseResourceID(resourceID) ==
    LET parts == ParseID(resourceID) IN
    IF Len(parts) # 2
    THEN [err |-> "Invalid resource ID format. Expected: provider.resource",
          providerName |-> <<>>, name |-> <<>>]
    ELSE [err |-> "", providerName |-> parts[1], name |-> parts[2]]

\* What a handler leaves: the HTTP status and body, the provider's own result
\* (Nil when no provider was invoked), the filesystem and the system calls.
Reply(status, body, result, f, calls) ==
    [status |-> status, body |-> body, result |-> result, fs |-> f, calls |-> calls]

\* if result.RequestID == "" { result.RequestID = request.RequestID }
EnsureRequestID(result, request) ==
    IF result.RequestID = "" THEN [result EXCEPT !.RequestID = request.RequestID]
    ELSE result

replyCallTool(request, out) ==
    Reply(200, MarshalCallToolResult(EnsureRequestID(out.result, request)),
          out.result, out.fs, out.calls)

dispatchCallTool(providers, request, f, live, id) ==
    IF id.err # ""
    THEN Reply(400, ErrorResponse("invalid_tool_id", Message(id.err)), Nil, f, {})
    ELSE IF id.providerName \notin DOMAIN providers
    THEN Reply(404, ErrorResponse("provider_not_found",
                        Sprintf("Provider not found: %s", id.providerName, "")), Nil, f, {})
    ELSE replyCallTool(request,
             CallTool(providers[id.providerName], id.name, request, f, live))

handleCallTool(providers, request, f, live) ==
    IF request.Malformed
    THEN Reply(400, ErrorResponse("invalid_request", Message("Failed to parse request body")),
               Nil, f, {})
    ELSE dispatchCallTool(providers, request, f, live, parseToolID(request.ToolID))

replyLoadResource(request, out) ==
    Reply(200, MarshalLoadResourceResult(EnsureRequestID(out.result, request)),
          out.result, out.fs, out.calls)

dispatchLoadResource(providers, request, f, live, id) ==
    IF id.err # ""
    THEN Reply(400, ErrorResponse("invalid_resource_id", Message(id.err)), Nil, f, {})
    ELSE IF id.providerName \notin DOMAIN providers
    THEN Reply(404, ErrorResponse("provider_not_found",
                        Sprintf("Provider not found: %s", id.providerName, "")), Nil, f, {})
    ELSE replyLoadResource(request,
             LoadResource(providers[id.providerName], id.name, request, f, live))

handleLoadResource(providers, request, f, live) ==
    IF request.Malformed
    THEN Reply(400, ErrorResponse("invalid_request", Message("Failed to parse request body")),
               Nil, f, {})
    ELSE dispatchLoadResource(providers, request, f, live,
             parseResourceID(request.ResourceID))

\* A Go map is ranged over in no fixed order: any order of the providers.
handleDiscover(providers, order) ==
    [server_info |-> [name |-> ServerName, version |-> ServerVersion,
                      description |-> ServerDescription],
     providers |-> [i \in 1..Len(order) |-> GetInfo(providers[order[i]])]]

handleServerInfo ==
    [name |-> ServerName, version |-> ServerVersion,
     description |-> ServerDescription, protocol |-> "mcp"]

----------------------------------------------------------------------------
(* Requests. A client sends one request and waits for its response.        *)

Arguments(path, content, encoding, recursive) ==
    [path |-> path, content |-> content, encoding |-> encoding, recursive |-> recursive]

CallToolRequest(toolID, requestID, arguments) ==
    [endpoint |-> "call-tool", Malformed |-> FALSE, ToolID |-> toolID,
     RequestID |-> requestID, Arguments |-> arguments]

LoadResourceRequest(resourceID, requestID, path, encoding) ==
    [endpoint |-> "load-resource", Malformed |-> FALSE, ResourceID |-> resourceID,
     RequestID |-> requestID, Params |-> [path |-> path, encoding |-> encoding]]

\* A body c.Bind cannot parse.
MalformedRequest(endpoint) == [endpoint |-> endpoint, Malformed |-> TRUE]

NoRequest == [endpoint |-> "none"]
NoResponse == [status |-> 0, body |-> <<>>]

ID(provider, capability) == provider \o DOT \o capability

RequestIDs == {"", "test-123"}

\* Paths a caller may send: the root itself, a directory with an entry, a
\* file, a file under a directory to be made, two escapes, a ".." that stays
\* inside, and absolute paths outside the root.
PathArgs ==
    { <<>>,
      <<"d">>,
      <<"d", "/", "f">>,
      <<"n", "/", "g">>,
      <<".", ".", "/", "o">>,
      <<"d", "/", ".", ".", "/", ".", ".", "/", "o", "/", "f">>,
      <<"n", "/", ".", ".", "/", "d">>,
      <<"/", "o">>,
      <<"/", "o", "/", "f">> }

PathValues == {AStr(path) : path \in PathArgs} \cup {Absent, ANumber}

\* Contents: "QQ==", the base64 of "A".
ContentValues == {AStr(<<81, 81, 61, 61>>), Absent}

EncodingValues == {AStr("text"), AStr("base64"), AStr("hex"), Absent, ANumber}

RecursiveValues == {ABool(TRUE), ABool(FALSE), Absent, ANumber}

\* Identifiers that name no tool or resource of a registered provider.
NameOther == <<"o", "t", "h", "e", "r">>

OddIDs(capability) ==
    { <<>>, DOT, NameFilesystem, DOT \o capability, NameFilesystem \o DOT,
      ID(ID(NameFilesystem, capability), <<"x">>),
      ID(NameOther, capability), ID(NameFilesystem, NameOther) }

CallToolRequests ==
    {CallToolRequest(ID(NameFilesystem, NameList), rid, Arguments(path, Absent, Absent, Absent)) :
        rid \in RequestIDs, path \in PathValues}
    \cup
    {CallToolRequest(ID(NameFilesystem, NameRead), rid, Arguments(path, Absent, enc, Absent)) :
        rid \in RequestIDs, path \in PathValues, enc \in EncodingValues}
    \cup
    {CallToolRequest(ID(NameFilesystem, NameWrite), rid, Arguments(path, content, enc, Absent)) :
        rid \in RequestIDs, path \in PathValues, content \in ContentValues,
        enc \in EncodingValues}
    \cup
    {CallToolRequest(ID(NameFilesystem, NameDelete), rid, Arguments(path, Absent, Absent, rec)) :
        rid \in RequestIDs, path \in PathValues, rec \in RecursiveValues}
    \cup
    {CallToolRequest(id, rid,
         Arguments(AStr(<<"n", "/", "g">>), AStr(<<81, 81, 61, 61>>), Absent, ABool(TRUE))) :
        rid \in RequestIDs, id \in OddIDs(NameWrite)}
    \cup {MalformedRequest("call-tool")}

LoadResourceRequests ==
    {LoadResourceRequest(ID(NameFilesystem, NameFile), rid, path, enc) :
        rid \in RequestIDs, path \in PathValues, enc \in EncodingValues}
    \cup
    {LoadResourceRequest(ID(NameFilesystem, NameDirectory), rid, path, Absent) :
        rid \in RequestIDs, path \in PathValues}
    \cup
    {LoadResourceRequest(id, rid, AStr(<<"d", "/", "f">>), Absent) :
        rid \in RequestIDs, id \in OddIDs(NameFile)}
    \cup {MalformedRequest("load-resource")}

----------------------------------------------------------------------------
(* The state machine.                                                      *)

\* The roots a provider is built with: the reference "." and the working
\* directory given as an absolute path.
RootDirs == {DOT, Cwd}

InitialFS ==
    (SLASH :> DirNode)
    @@ (<<"/", "w">> :> DirNode)
    @@ (<<"/", "w", "/", "d">> :> DirNode)
    @@ (<<"/", "w", "/", "d", "/", "f">> :> FileNode(<<65>>))
    @@ (<<"/", "o">> :> DirNode)
    @@ (<<"/", "o", "/", "f">> :> FileNode(<<65>>))

\* The server after startup: one filesystem provider registered.
Init ==
    /\ \E root \in RootDirs :
           Providers = RegisterProvider(NewMCPServer, NewFilesystemProvider(root))
    /\ fs = InitialFS
    /\ cwdLive = TRUE
    /\ pc = "idle"
    /\ req = NoRequest
    /\ provResult = Nil
    /\ resp = NoResponse
    /\ touched = {}

\* The handler's reply becomes the response in flight.
Answer(request, out) ==
    /\ req' = request
    /\ resp' = [status |-> out.status, body |-> out.body]
    /\ provResult' = out.result
    /\ fs' = out.fs
    /\ cwdLive' = (cwdLive /\ Cwd \in DOMAIN out.fs)
    /\ touched' = out.calls

HandleCallTool(requests) ==
    /\ pc = "idle"
    /\ \E request \in requests :
           Answer(request, handleCallTool(Providers, request, fs, cwdLive))
    /\ pc' = "replied"
    /\ UNCHANGED Providers

HandleLoadResource(requests) ==
    /\ pc = "idle"
    /\ \E request \in requests :
           Answer(request, handleLoadResource(Providers, request, fs, cwdLive))
    /\ pc' = "replied"
    /\ UNCHANGED Providers

\* The orders in which a map of at most one provider can be ranged over.
Orders(providers) ==
    IF DOMAIN providers = {} THEN {<<>>} ELSE {<<n>> : n \in DOMAIN providers}

HandleDiscover ==
    /\ pc = "idle"
    /\ \E order \in Orders(Providers) :
           resp' = [status |-> 200, body |-> handleDiscover(Providers, order)]
    /\ req' = [endpoint |-> "discover"]
    /\ provResult' = Nil
    /\ touched' = {}
    /\ pc' = "replied"
    /\ UNCHANGED <<Providers, fs, cwdLive>>

HandleServerInfo ==
    /\ pc = "idle"
    /\ resp' = [status |-> 200, body |-> handleServerInfo]
    /\ req' = [endpoint |-> "server-info"]
    /\ provResult' = Nil
    /\ touched' = {}
    /\ pc' = "replied"
    /\ UNCHANGED <<Providers, fs, cwdLive>>

\* The response reaches the client; the server is ready for the next request.
Deliver ==
    /\ pc = "replied"
    /\ pc' = "idle"
    /\ req' = NoRequest
    /\ provResult' = Nil
    /\ resp' = NoResponse
    /\ touched' = {}
    /\ UNCHANGED <<Providers, fs, cwdLive>>

Next ==
    \/ HandleCallTool(CallToolRequests)
    \/ HandleLoadResource(LoadResourceRequests)
    \/ HandleDiscover
    \/ HandleServerInfo
    \/ Deliver

Spec == Init /\ [][Next]_vars

----------------------------------------------------------------------------
(* resolvePath alone, over every short path.                               *)

MaxPathLen == 7

PathAlphabet == {"/", ".", "a"}

RECURSIVE Strings(_, _)
Strings(alphabet, n) ==
    IF n = 0 THEN {<<>>}
    ELSE LET shorter == Strings(alphabet, n - 1)
         IN  shorter \cup {Append(s, c) : s \in {t \in shorter : Len(t) = n - 1},
                                          c \in alphabet}

Candidates == Strings(PathAlphabet, MaxPathLen)

\* Roots: ".", the working directory, "/", a directory below and the one above.
ResolveRoots == {DOT, Cwd, SLASH, <<"a">>, DOTDOT}

InitResolve ==
    /\ \E root \in ResolveRoots :
           Providers = RegisterProvider(NewMCPServer, NewFilesystemProvider(root))
    /\ fs = InitialFS
    /\ cwdLive \in BOOLEAN
    /\ pc = "idle"
    /\ req = NoRequest
    /\ provResult = Nil
    /\ resp = NoResponse
    /\ touched = {}

ResolvePath ==
    /\ pc = "idle"
    /\ \E path \in Candidates :
           /\ req' = [endpoint |-> "resolvePath", path |-> path]
           /\ resp' = resolvePath(Providers[NameFilesystem], path, cwdLive)
    /\ pc' = "replied"
    /\ UNCHANGED <<Providers, fs, cwdLive, provResult, touched>>

NextResolve == ResolvePath \/ Deliver

SpecResolve == InitResolve /\ [][NextResolve]_vars

----------------------------------------------------------------------------
(* Dispatch alone, over every identifier of a few parts.                   *)

MaxIDParts == 3

IDParts == {<<>>, NameFilesystem, NameWrite, NameFile, <<"x">>}

\* Every identifier of n parts joined by ".".
RECURSIVE DottedIDs(_)
DottedIDs(n) ==
    IF n = 1 THEN IDParts
    ELSE {ID(s, t) : s \in DottedIDs(n - 1), t \in IDParts}

Identifiers == UNION {DottedIDs(n) : n \in 1..MaxIDParts}

DispatchToolRequests ==
    {CallToolRequest(id, rid,
         Arguments(AStr(<<"n", "/", "g">>), AStr(<<81, 81, 61, 61>>), Absent, ABool(TRUE))) :
        rid \in RequestIDs, id \in Identifiers}

DispatchResourceRequests ==
    {LoadResourceRequest(id, rid, AStr(<<"d", "/", "f">>), Absent) :
        rid \in RequestIDs, id \in Identifiers}

NextDispatch ==
    \/ HandleCallTool(DispatchToolRequests)
    \/ HandleLoadResource(DispatchResourceRequests)
    \/ Deliver

SpecDispatch == Init /\ [][NextDispatch]_vars

----------------------------------------------------------------------------
(* Writes and reads of one file, over every short content.                 *)

MaxContentLen == 4
MaxDataLen == 2

\* Contents sent: every short string of "Q" and "=", and the base64 of every
\* short string of the bytes 0x41 and 0xFF.
SentContents ==
    Strings({81, 61}, MaxContentLen)
    \cup {EncodeToString(data) : data \in Strings({65, 255}, MaxDataLen)}

\* Four spellings of one file: plain, with a ".", with a ".." and absolute.
RoundTripPaths ==
    { <<"n", "/", "g">>,
      <<".", "/", "n", "/", "g">>,
      <<"n", "/", ".", ".", "/", "n", "/", "g">>,
      <<"/", "w", "/", "n", "/", "g">> }

\* Encodings sent: the two the tools name, one that differs from "base64" in
\* case only, a value that is no string, and none.
RoundTripEncodings == {AStr("text"), AStr("base64"), AStr("BASE64"), ANumber, Absent}

RoundTripToolRequests ==
    {CallToolRequest(ID(NameFilesystem, NameWrite), "test-123",
         Arguments(AStr(path), AStr(content), enc, Absent)) :
        path \in RoundTripPaths, content \in SentContents,
        enc \in RoundTripEncodings}
    \cup
    {CallToolRequest(ID(NameFilesystem, NameRead), "test-123",
         Arguments(AStr(path), Absent, enc, Absent)) :
        path \in RoundTripPaths, enc \in RoundTripEncodings}

RoundTripResourceRequests ==
    {LoadResourceRequest(ID(NameFilesystem, NameFile), "test-123", AStr(path), enc) :
        path \in RoundTripPaths, enc \in RoundTripEncodings}

NextRoundTrip ==
    \/ HandleCallTool(RoundTripToolRequests)
    \/ HandleLoadResource(RoundTripResourceRequests)
    \/ Deliver

SpecRoundTrip == Init /\ [][NextRoundTrip]_vars

----------------------------------------------------------------------------
(* Vocabulary of the properties.                                           *)

Replied == pc = "replied"

\* A call-tool or load-resource request whose body was parsed.
Dispatched ==
    /\ Replied
    /\ req.endpoint \in {"call-tool", "load-resource"}
    /\ ~req.Malformed

ToolCall(name) ==
    /\ Dispatched
    /\ req.endpoint = "call-tool"
    /\ req.ToolID = ID(NameFilesystem, name)

IdOf(r) == IF r.endpoint = "call-tool" THEN r.ToolID ELSE r.ResourceID

PathOf(r) == IF r.endpoint = "call-tool" THEN r.Arguments.path ELSE r.Params.path

Provider == Providers[NameFilesystem]

\* The sandbox root as an absolute path.
SandboxRoot == IF IsAbs(Provider.rootDir) THEN Clean(Provider.rootDir)
               ELSE Join(Cwd, Provider.rootDir)

\* Every entry read, listed, created, written or removed is the root or below it.
Confined(calls) ==
    \A c \in calls : c.call # "stat" => Under(c.path, SandboxRoot)

AbsolutePathRequest(r) ==
    /\ r.endpoint \in {"call-tool", "load-resource"}
    /\ ~r.Malformed
    /\ IsString(PathOf(r))
    /\ IsAbs(PathOf(r).s)

PathEscape == "path attempts to access parent directory outside of root"

\* A ".." segment followed by a separator.
HasDotDotSlash(path) ==
    \E i \in 1..(Len(Split(path, "/")) - 1) : Split(path, "/")[i] = DOTDOT

\* Some ".." segment of a relative path climbs above the directory it starts in.
RECURSIVE ClimbsFrom(_, _)
ClimbsFrom(parts, depth) ==
    IF parts = <<>> THEN FALSE
    ELSE IF Head(parts) = DOTDOT THEN depth = 0 \/ ClimbsFrom(Tail(parts), depth - 1)
    ELSE IF Head(parts) \in {<<>>, DOT} THEN ClimbsFrom(Tail(parts), depth)
    ELSE ClimbsFrom(Tail(parts), depth + 1)

Climbs(path) == ClimbsFrom(Split(path, "/"), 0)

\* A segment other than ".." whose name begins with "..".
HasDotDotName(path) ==
    \E i \in 1..Len(Split(path, "/")) :
        /\ HasPrefix(Split(path, "/")[i], DOTDOT)
        /\ Split(path, "/")[i] # DOTDOT

DotCount(id) == Cardinality({i \in 1..Len(id) : id[i] = "."})

InvalidIdError(r) ==
    IF r.endpoint = "call-tool" THEN "invalid_tool_id" ELSE "invalid_resource_id"

\* The result envelope of an error: request_id, status "error", error {code, message}.
IsErrorEnvelope(body, requestID) ==
    /\ DOMAIN body = {"request_id", "status", "error"}
    /\ body["request_id"] = requestID
    /\ body["status"] = "error"
    /\ DOMAIN body["error"] = {"code", "message"}

\* The dispatcher's own error body: error and message, nothing else.
IsErrorResponse(body) == DOMAIN body = {"error", "message"}

----------------------------------------------------------------------------
(* Properties.                                                             *)

\* C1, as stated: no operation reads, lists, creates, writes or removes an
\* entry outside the sandbox root.
C1_NothingOutsideRoot == Confined(touched)

\* C1, amended: a request whose path argument is not absolute, answered while
\* the sandbox root is a directory, reads, lists, creates, writes and removes
\* only the root and entries below it.
C1_RelativeConfined ==
    [][(/\ pc = "idle"
        /\ pc' = "replied"
        /\ Stat(fs, SandboxRoot).err = ""
        /\ Stat(fs, SandboxRoot).IsDir
        /\ ~AbsolutePathRequest(req'))
       => Confined(touched')]_vars

\* A write of "n/g" made the directory n and wrote the file, both below the root.
C1_Witness ==
    /\ ToolCall(NameWrite)
    /\ req.Arguments.path = AStr(<<"n", "/", "g">>)
    /\ Call("mkdir", Join(SandboxRoot, <<"n">>)) \in touched
    /\ Call("write", Join(SandboxRoot, <<"n", "/", "g">>)) \in touched

\* C2, as stated: under an absolute root every candidate with a "../" segment
\* is refused with the path-escape error.
C2_EveryDotDotRefused ==
    (/\ Replied
     /\ req.endpoint = "resolvePath"
     /\ IsAbs(Provider.rootDir)
     /\ HasDotDotSlash(req.path))
    => (resp.err = PathEscape /\ resp.path = <<>>)

\* C2, amended: whatever the root, a relative candidate one of whose ".."
\* segments climbs above the starting directory is refused with the
\* path-escape error and no location; a relative candidate whose ".." segments
\* all cancel, and that has no segment named "..x", is not refused with it.
C2_ClimbingRefused ==
    (/\ Replied
     /\ req.endpoint = "resolvePath"
     /\ ~IsAbs(req.path))
    => /\ Climbs(req.path) => (resp.err = PathEscape /\ resp.path = <<>>)
       /\ (~Climbs(req.path) /\ ~HasDotDotName(req.path)) => resp.err # PathEscape

\* "a/../.." is refused under an absolute root, "a/../a" is resolved.
C2_Witness ==
    /\ Replied
    /\ req.endpoint = "resolvePath"
    /\ IsAbs(Provider.rootDir)
    /\ req.path = <<"a", "/", ".", ".", "/", ".", ".">>
    /\ resp.err = PathEscape

\* C3: an absolute path is resolved to itself, whatever the root, so listing
\* an existing directory or reading an existing file by an absolute path
\* succeeds with the path as supplied, outside the root too.
C3_AbsoluteBypasses ==
    (/\ ToolCall(NameList) \/ ToolCall(NameRead)
     /\ AbsolutePathRequest(req)
     /\ Stat(fs, PathOf(req).s).err = ""
     /\ Stat(fs, PathOf(req).s).IsDir = (req.ToolID = ID(NameFilesystem, NameList)))
    => /\ resolvePath(Provider, PathOf(req).s, cwdLive) = [err |-> "", path |-> PathOf(req).s]
       /\ resp.status = 200
       /\ resp.body["status"] = "success"
       /\ resp.body["result"].json.path = PathOf(req).s
       /\ \A c \in touched : c.path = PathOf(req).s

\* The file /o/f, outside the absolute root /w, was read by its absolute path.
C3_Witness ==
    /\ ToolCall(NameRead)
    /\ Provider.rootDir = Cwd
    /\ PathOf(req) = AStr(<<"/", "o", "/", "f">>)
    /\ ~Under(PathOf(req).s, SandboxRoot)
    /\ resp.body["status"] = "success"
    /\ resp.body["result"].json.content = <<65>>

\* C4: an identifier with no "." or with more than one is answered with the
\* invalid-identifier error, and no provider is invoked.
C4_OneDotRequired ==
    (Dispatched /\ DotCount(IdOf(req)) # 1)
    => /\ resp.status = 400
       /\ IsErrorResponse(resp.body)
       /\ resp.body.error = InvalidIdError(req)
       /\ provResult = Nil
       /\ touched = {}

\* "filesystem.write.x" was refused.
C4_Witness ==
    /\ Dispatched
    /\ IdOf(req) = ID(ID(NameFilesystem, NameWrite), <<"x">>)
    /\ resp.status = 400
    /\ provResult = Nil

\* C5, as stated: an identifier with one "." and an empty part is answered
\* with the invalid-identifier error, with no provider looked up or invoked.
C5_EmptyPartRefused ==
    (/\ Dispatched
     /\ DotCount(IdOf(req)) = 1
     /\ (Head(IdOf(req)) = "." \/ IdOf(req)[Len(IdOf(req))] = "."))
    => /\ resp.status = 400
       /\ resp.body.error = InvalidIdError(req)
       /\ provResult = Nil

\* C6: when a provider was reached, the response carries the request's
\* request_id, and a request_id the provider set is not overwritten.
C6_RequestIdEchoed ==
    (Dispatched /\ provResult # Nil)
    => /\ resp.body["request_id"] = req.RequestID
       /\ provResult.RequestID # "" => resp.body["request_id"] = provResult.RequestID

\* A request "test-123" for an unknown tool got its identifier back.
C6_Witness ==
    /\ ToolCall(NameOther)
    /\ req.RequestID = "test-123"
    /\ provResult # Nil
    /\ provResult.RequestID = "test-123"
    /\ resp.body["request_id"] = "test-123"

\* C7, as stated: a result never carries an empty request_id; one is
\* generated when the request has none.
C7_RequestIdGenerated ==
    (Dispatched /\ provResult # Nil) => resp.body["request_id"] # ""

ReadBack(path, encoding) ==
    handleCallTool(Providers,
        CallToolRequest(ID(NameFilesystem, NameRead), "read-back",
            Arguments(AStr(path), Absent, AStr(encoding), Absent)),
        fs, cwdLive).body

\* C9: after a successful write of text c to p, a read of p as text returns
\* c with is_text true, and a read of p with encoding base64 returns, with
\* is_text false, a content whose base64 decoding is c; after a successful
\* write of base64(b) to p with encoding base64, a read of p with encoding
\* base64 returns base64(b).
C9_RoundTrip ==
    (ToolCall(NameWrite) /\ resp.body["status"] = "success")
    => /\ EncodingOf(req.Arguments.encoding) = "text"
          => /\ ReadBack(PathOf(req).s, "text")["status"] = "success"
             /\ ReadBack(PathOf(req).s, "text")["result"].json.content
                    = req.Arguments.content.s
             /\ ReadBack(PathOf(req).s, "text")["result"].json.is_text
             /\ ReadBack(PathOf(req).s, "base64")["status"] = "success"
             /\ ~ReadBack(PathOf(req).s, "base64")["result"].json.is_text
             /\ DecodeString(ReadBack(PathOf(req).s, "base64")["result"].json.content)
                    = [err |-> "", data |-> req.Arguments.content.s]
       /\ (/\ EncodingOf(req.Arguments.encoding) = "base64"
           /\ \E data \in Strings({65, 255}, MaxDataLen) :
                  req.Arguments.content.s = EncodeToString(data))
          => /\ ReadBack(PathOf(req).s, "base64")["status"] = "success"
             /\ ReadBack(PathOf(req).s, "base64")["result"].json.content
                    = req.Arguments.content.s
             /\ ~ReadBack(PathOf(req).s, "base64")["result"].json.is_text

\* The bytes 0x41 0xFF were written as base64 to "n/../n/g".
C9_Witness ==
    /\ ToolCall(NameWrite)
    /\ resp.body["status"] = "success"
    /\ req.Arguments.encoding = AStr("base64")
    /\ req.Arguments.content.s = EncodeToString(<<65, 255>>)
    /\ PathOf(req).s = <<"n", "/", ".", ".", "/", "n", "/", "g">>
    /\ fs[Join(SandboxRoot, <<"n", "/", "g">>)] = FileNode(<<65, 255>>)

\* A delete, without recursive = true, of a directory that has an entry.
DeleteOfNonEmptyDirectory(r, f, live) ==
    /\ r.endpoint = "call-tool"
    /\ ~r.Malformed
    /\ r.ToolID = ID(NameFilesystem, NameDelete)
    /\ IsString(r.Arguments.path)
    /\ r.Arguments.recursive # ABool(TRUE)
    /\ resolvePath(Provider, r.Arguments.path.s, live).err = ""
    /\ LET target == resolvePath(Provider, r.Arguments.path.s, live).path
       IN  /\ Stat(f, target).err = ""
           /\ Stat(f, target).IsDir
           /\ \E q \in DOMAIN f : q # Location(f, target) /\ Under(q, Location(f, target))

NotEmptyFormat ==
    "Directory is not empty: %s. Use recursive=true to delete non-empty directories"

\* C10: a delete with recursive false or absent of a directory that has an
\* entry fails with the directory-not-empty error and changes nothing.
C10_NonEmptyDirectoryKept ==
    [][(/\ pc = "idle"
        /\ pc' = "replied"
        /\ DeleteOfNonEmptyDirectory(req', fs, cwdLive))
       => /\ fs' = fs
          /\ resp'.body["status"] = "error"
          /\ resp'.body["error"].message.format = NotEmptyFormat
          /\ \A c \in touched' : c.call \in {"stat", "list"}]_vars

\* A delete of "d" with recursive absent was refused and d/f is still there.
C10_Witness ==
    /\ ToolCall(NameDelete)
    /\ PathOf(req) = AStr(<<"d">>)
    /\ req.Arguments.recursive = Absent
    /\ resp.body["status"] = "error"
    /\ resp.body["error"].message.format = NotEmptyFormat
    /\ Join(SandboxRoot, <<"d", "/", "f">>) \in DOMAIN fs

\* C11, as stated: a write or delete that answers with an error envelope has
\* created, written and removed nothing.
C11_FailureLeavesNothing ==
    (/\ ToolCall(NameWrite) \/ ToolCall(NameDelete)
     /\ resp.body["status"] = "error")
    => \A c \in touched : c.call \notin {"mkdir", "write", "remove"}

\* The resource that is the twin of a tool, and the tool of a resource.
TwinOf(name) ==
    IF name = NameRead THEN NameFile
    ELSE IF name = NameList THEN NameDirectory
    ELSE IF name = NameFile THEN NameRead
    ELSE NameList

\* The body the twin gives for the same arguments on the current filesystem.
TwinBody ==
    IF req.endpoint = "call-tool"
    THEN handleLoadResource(Providers,
             LoadResourceRequest(ID(NameFilesystem, TwinOf(ParseID(req.ToolID)[2])),
                 req.RequestID, req.Arguments.path, req.Arguments.encoding),
             fs, cwdLive).body
    ELSE handleCallTool(Providers,
             CallToolRequest(ID(NameFilesystem, TwinOf(ParseID(req.ResourceID)[2])),
                 req.RequestID,
                 Arguments(req.Params.path, Absent, req.Params.encoding, Absent)),
             fs, cwdLive).body

ReadOrList ==
    \/ ToolCall(NameRead)
    \/ ToolCall(NameList)
    \/ Dispatched /\ req.endpoint = "load-resource"
          /\ req.ResourceID \in {ID(NameFilesystem, NameFile), ID(NameFilesystem, NameDirectory)}

\* The same status and the same payload or the same error message; the tool
\* carries it under "result" with code execution_error, the resource under
\* "content" with code resource_error.
SameAnswer(tool, resource) ==
    /\ tool["status"] = resource["status"]
    /\ tool["request_id"] = resource["request_id"]
    /\ tool["status"] = "success"
       => /\ DOMAIN tool = {"request_id", "status", "result"}
          /\ DOMAIN resource = {"request_id", "status", "content"}
          /\ tool["result"] = resource["content"]
    /\ tool["status"] # "success"
       => /\ tool["error"].message = resource["error"].message
          /\ tool["error"].code = "execution_error"
          /\ resource["error"].code = "resource_error"

\* C12: the read tool and the file resource, and the list tool and the
\* directory resource, answer the same arguments on the same filesystem with
\* the same status and the same payload or the same error message, differing
\* in the field that carries the payload and in the error code only.
C12_ToolResourceEquivalent ==
    ReadOrList
    => IF req.endpoint = "call-tool" THEN SameAnswer(resp.body, TwinBody)
       ELSE SameAnswer(TwinBody, resp.body)

\* The file resource was loaded as base64 and the read tool gives the same.
C12_Witness ==
    /\ Dispatched
    /\ req.endpoint = "load-resource"
    /\ req.ResourceID = ID(NameFilesystem, NameFile)
    /\ req.Params.encoding = AStr("base64")
    /\ req.Params.path = AStr(<<"d", "/", "f">>)
    /\ resp.body["status"] = "success"
    /\ resp.body["content"].json.content = EncodeToString(<<65>>)
    /\ TwinBody["result"].json.content = EncodeToString(<<65>>)

\* The entries directly in a directory.
ChildrenOf(f, dir) == {q \in DOMAIN f : q # dir /\ Dir(q) = dir}

\* C13: a list of an existing directory succeeds with one record for each
\* entry directly in it and none for deeper entries; a record's name is the
\* entry's name and its path the join of the request path, as supplied, with
\* the name; the result's path is the request path.
C13_ListGivesChildren ==
    (/\ ToolCall(NameList)
     /\ IsString(PathOf(req))
     /\ resolvePath(Provider, PathOf(req).s, cwdLive).err = ""
     /\ Stat(fs, resolvePath(Provider, PathOf(req).s, cwdLive).path).err = ""
     /\ Stat(fs, resolvePath(Provider, PathOf(req).s, cwdLive).path).IsDir)
    => /\ resp.body["status"] = "success"
       /\ resp.body["result"].json.path = PathOf(req).s
       /\ Len(resp.body["result"].json.files)
             = Cardinality(ChildrenOf(fs, resolvePath(Provider, PathOf(req).s, cwdLive).path))
       /\ \A q \in ChildrenOf(fs, resolvePath(Provider, PathOf(req).s, cwdLive).path) :
             \E i \in 1..Len(resp.body["result"].json.files) :
                 /\ resp.body["result"].json.files[i].name = Base(q)
                 /\ resp.body["result"].json.files[i].path = Join(PathOf(req).s, Base(q))
                 /\ resp.body["result"].json.files[i].is_dir = (fs[q].kind = "dir")

\* The root, holding d and n with entries of their own, listed by "": two
\* records, with paths d and n.
C13_Witness ==
    /\ ToolCall(NameList)
    /\ PathOf(req) = AStr(<<>>)
    /\ resp.body["status"] = "success"
    /\ Len(resp.body["result"].json.files) = 2
    /\ resp.body["result"].json.files[2].path = <<"n">>
    /\ Join(SandboxRoot, <<"n", "/", "g">>) \in DOMAIN fs
    /\ Join(SandboxRoot, <<"d", "/", "f">>) \in DOMAIN fs

\* A request for one of the provider's tools or resources.
KnownCapability ==
    \/ \E name \in {NameList, NameRead, NameWrite, NameDelete} : ToolCall(name)
    \/ Dispatched /\ req.endpoint = "load-resource"
          /\ req.ResourceID \in {ID(NameFilesystem, NameFile), ID(NameFilesystem, NameDirectory)}

\* C14: a path that is missing or not a string, and for write a content that
\* is missing or not a string, is answered with an error envelope, with code
\* execution_error for a tool and resource_error for a resource, never with a
\* fault, and without any filesystem access.
C14_RequiredArguments ==
    (/\ KnownCapability
     /\ \/ ~IsString(PathOf(req))
        \/ ToolCall(NameWrite) /\ ~IsString(req.Arguments.content))
    => /\ resp.status = 200
       /\ IsErrorEnvelope(resp.body, req.RequestID)
       /\ resp.body["error"].code
             = (IF req.endpoint = "call-tool" THEN "execution_error" ELSE "resource_error")
       /\ resp.body["error"].message
             = (IF ~IsString(PathOf(req))
                THEN Message("Path parameter is required and must be a string")
                ELSE Message("Content parameter is required and must be a string"))
       /\ touched = {}

\* A file resource was loaded with a number for its path.
C14_Witness ==
    /\ Dispatched
    /\ req.endpoint = "load-resource"
    /\ req.ResourceID = ID(NameFilesystem, NameFile)
    /\ req.Params.path = ANumber
    /\ resp.body["error"].code = "resource_error"
    /\ touched = {}

----------------------------------------------------------------------------
(* Two write tool calls to one path, running at once. Each goes through    *)
(* the steps of writeFile one system call at a time: MkdirAll of the       *)
(* parent, then os.WriteFile's open (create or truncate), its write of the *)
(* data at the start of the file, and the return of the result. Here pc,   *)
(* req and resp hold one value for each writer.                            *)

MaxWriteLen == 2

Writers == {1, 2}

WriteContents == Strings({65, 66}, MaxWriteLen)

SharedPath == <<"n", "/", "g">>

WriterRequests ==
    {CallToolRequest(ID(NameFilesystem, NameWrite), "test-123",
         Arguments(AStr(SharedPath), AStr(content), Absent, Absent)) :
        content \in WriteContents}

\* The file a writer's path resolves to.
TargetOf(w) == resolvePath(Provider, req[w].Arguments.path.s, cwdLive).path

\* The open of os.WriteFile: O_WRONLY|O_CREATE|O_TRUNC leaves an empty file.
OpenTruncate(f, path) == WriteFile(f, path, <<>>)

\* A write of data through a descriptor just opened: the bytes go to the
\* start of the file and what lies beyond them stays.
WriteAtStart(f, path, data) ==
    [f EXCEPT ![path] = FileNode(data \o SubSeq(@.data, Len(data) + 1, Len(@.data)))]

WriterBody(w, result) == MarshalCallToolResult(WithRequestID(result, req[w]))

InitConcurrent ==
    /\ \E root \in RootDirs :
           Providers = RegisterProvider(NewMCPServer, NewFilesystemProvider(root))
    /\ fs = InitialFS
    /\ cwdLive = TRUE
    /\ pc = [w \in Writers |-> "start"]
    /\ req \in [Writers -> WriterRequests]
    /\ provResult = Nil
    /\ resp = [w \in Writers |-> NoResponse]
    /\ touched = {}

\* parentDir := filepath.Dir(fullPath); os.MkdirAll(parentDir, 0755)
WriterMkdirAll(w) ==
    /\ pc[w] = "start"
    /\ LET mk == MkdirAll(fs, Dir(TargetOf(w))) IN
       /\ fs' = mk.fs
       /\ touched' = touched \cup {Call("mkdir", d) : d \in mk.made}
       /\ IF mk.err # ""
          THEN /\ pc' = [pc EXCEPT ![w] = "done"]
               /\ resp' = [resp EXCEPT ![w] = [status |-> 200, body |->
                      WriterBody(w, NewToolResultError(
                          Sprintf("Error creating directory: %s", <<>>, mk.err)))]]
          ELSE /\ pc' = [pc EXCEPT ![w] = "made"]
               /\ resp' = resp
    /\ UNCHANGED <<Providers, cwdLive, req, provResult>>

\* os.WriteFile: the file is opened, created or truncated
WriterOpen(w) ==
    /\ pc[w] = "made"
    /\ LET op == OpenTruncate(fs, TargetOf(w)) IN
       /\ fs' = op.fs
       /\ IF op.err # ""
          THEN /\ pc' = [pc EXCEPT ![w] = "done"]
               /\ resp' = [resp EXCEPT ![w] = [status |-> 200, body |->
                      WriterBody(w, NewToolResultError(
                          Sprintf("Error writing file: %s", <<>>, op.err)))]]
               /\ touched' = touched
          ELSE /\ pc' = [pc EXCEPT ![w] = "opened"]
               /\ resp' = resp
               /\ touched' = touched \cup {Call("write", op.at)}
    /\ UNCHANGED <<Providers, cwdLive, req, provResult>>

\* os.WriteFile: the data is written
WriterWrite(w) ==
    /\ pc[w] = "opened"
    /\ fs' = WriteAtStart(fs, TargetOf(w), req[w].Arguments.content.s)
    /\ pc' = [pc EXCEPT ![w] = "written"]
    /\ UNCHANGED <<Providers, cwdLive, req, provResult, resp, touched>>

\* the file is closed and the result returned
WriterReturn(w) ==
    /\ pc[w] = "written"
    /\ pc' = [pc EXCEPT ![w] = "done"]
    /\ resp' = [resp EXCEPT ![w] = [status |-> 200, body |->
           WriterBody(w, NewToolResultText(
               Sprintf("File written successfully: %s", req[w].Arguments.path.s, "")))]]
    /\ UNCHANGED <<Providers, fs, cwdLive, req, provResult, touched>>

NextConcurrent ==
    \E w \in Writers :
        \/ WriterMkdirAll(w)
        \/ WriterOpen(w)
        \/ WriterWrite(w)
        \/ WriterReturn(w)

SpecConcurrent == InitConcurrent /\ [][NextConcurrent]_vars

\* C16, as stated: when both writers have returned success, the file holds
\* the content of one of them, whole.
C16_LastWriterWins ==
    (\A w \in Writers : pc[w] = "done" /\ resp[w].body["status"] = "success")
    => \E w \in Writers : fs[TargetOf(w)] = FileNode(req[w].Arguments.content.s)

----------------------------------------------------------------------------

\* A delete whose path argument the resolver accepts.
DeleteResolved(r, live) ==
    /\ r.endpoint = "call-tool"
    /\ ~r.Malformed
    /\ r.ToolID = ID(NameFilesystem, NameDelete)
    /\ IsString(r.Arguments.path)
    /\ resolvePath(Provider, r.Arguments.path.s, live).err = ""

\* Some entry above the path is a file.
BelowFile(f, path) ==
    \E q \in DOMAIN f : q # path /\ Under(path, q) /\ f[q].kind = "file"

NotFoundFormat == "File or directory not found: %s"

\* C17, as stated, for a path that does not exist: the delete answers with
\* the not-found error.
C17_MissingIsNotFound ==
    (/\ ToolCall(NameDelete)
     /\ DeleteResolved(req, cwdLive)
     /\ resp.body["status"] = "error"
     /\ resolvePath(Provider, PathOf(req).s, cwdLive).path \notin DOMAIN fs)
    => resp.body["error"].message.format = NotFoundFormat

\* What a delete of target does to the filesystem and answers.
DeleteEffect(r, target, before, after, body) ==
    /\ (target \in DOMAIN before /\ before[target].kind = "file")
       => /\ body["status"] = "success"
          /\ after = Without(before, {target})
    /\ (target \in DOMAIN before /\ before[target].kind = "dir"
          /\ r.Arguments.recursive = ABool(TRUE))
       => /\ body["status"] = "success"
          /\ after = Without(before, {q \in DOMAIN before : Under(q, target)})
    /\ (target \in DOMAIN before /\ before[target].kind = "dir"
          /\ r.Arguments.recursive # ABool(TRUE)
          /\ \A q \in DOMAIN before : Under(q, target) => q = target)
       => /\ body["status"] = "success"
          /\ after = Without(before, {target})
    /\ (target \notin DOMAIN before /\ ~BelowFile(before, target))
       => /\ body["status"] = "error"
          /\ body["error"].message.format = NotFoundFormat
          /\ after = before
    /\ (target \notin DOMAIN before /\ BelowFile(before, target))
       => /\ body["status"] = "error"
          /\ body["error"].message.format = "Error accessing path: %s"
          /\ after = before
    /\ body["status"] = "success"
       => /\ target \notin DOMAIN after
          /\ DOMAIN after \subseteq DOMAIN before
          /\ \A q \in DOMAIN before :
                ~Under(q, target) => (q \in DOMAIN after /\ after[q] = before[q])

\* C17, amended: a delete of an existing file removes it whatever recursive
\* is; with recursive true a delete of a directory removes it and everything
\* beneath it; without it a delete of an empty directory removes it; a delete
\* of a path that does not exist answers with the not-found error when no
\* entry above the path is a file, and with the error of accessing the path
\* when one is. After a successful delete the target is gone and every entry
\* outside its subtree is as before.
C17_DeleteSemantics ==
    [][(/\ pc = "idle"
        /\ pc' = "replied"
        /\ DeleteResolved(req', cwdLive))
       => DeleteEffect(req', resolvePath(Provider, req'.Arguments.path.s, cwdLive).path,
                       fs, fs', resp'.body)]_vars

\* A recursive delete of "d" succeeded: d and d/f are gone, /o/f is there.
C17_Witness ==
    /\ ToolCall(NameDelete)
    /\ PathOf(req) = AStr(<<"d">>)
    /\ req.Arguments.recursive = ABool(TRUE)
    /\ resp.body["status"] = "success"
    /\ Join(SandboxRoot, <<"d">>) \notin DOMAIN fs
    /\ SandboxRoot \in DOMAIN fs
    /\ fs[<<"/", "o", "/", "f">>] = FileNode(<<65>>)

\* A write or delete tool call of the filesystem provider.
WriteOrDelete(r) ==
    /\ r.endpoint = "call-tool"
    /\ ~r.Malformed
    /\ r.ToolID \in {ID(NameFilesystem, NameWrite), ID(NameFilesystem, NameDelete)}

OutsideRoot == "path is outside of root directory"

\* The segments of a relative path that stay after "." and "" are dropped and
\* each ".." has taken away the segment before it.
RECURSIVE Surviving(_, _)
Surviving(parts, kept) ==
    IF parts = <<>> THEN kept
    ELSE IF Head(parts) \in {<<>>, DOT} THEN Surviving(Tail(parts), kept)
    ELSE IF Head(parts) = DOTDOT /\ kept # <<>>
    THEN Surviving(Tail(parts), SubSeq(kept, 1, Len(kept) - 1))
    ELSE Surviving(Tail(parts), Append(kept, Head(parts)))

\* A path going down from dir through the segments.
RECURSIVE Descend(_, _)
Descend(dir, segments) ==
    IF segments = <<>> THEN dir
    ELSE Descend(Child(dir, Head(segments)), Tail(segments))

\* C19: a relative candidate that resolvePath accepts resolves to the root,
\* in absolute form, followed by the candidate's surviving segments, so at or
\* below the root, and to the root itself when none survives; no candidate
\* gets the outside-of-root error.
C19_AcceptedBelowRoot ==
    (Replied /\ req.endpoint = "resolvePath")
    => /\ resp.err # OutsideRoot
       /\ (~IsAbs(req.path) /\ resp.err = "")
          => /\ ~Climbs(req.path)
             /\ resp.path = Descend(SandboxRoot, Surviving(Split(req.path, "/"), <<>>))
             /\ Under(resp.path, SandboxRoot)
       /\ (resp.err = "" /\ req.path \in {<<>>, DOT}) => resp.path = SandboxRoot

\* "a/./a" under the absolute root /w resolves to /w/a/a.
C19_Witness ==
    /\ Replied
    /\ req.endpoint = "resolvePath"
    /\ Provider.rootDir = Cwd
    /\ req.path = <<"a", "/", ".", "/", "a">>
    /\ resp = [err |-> "", path |-> <<"/", "w", "/", "a", "/", "a">>]

EncodingArg(r) == IF r.endpoint = "call-tool" THEN r.Arguments.encoding ELSE r.Params.encoding

\* The file a request's path resolves to.
ResolvedTarget == resolvePath(Provider, PathOf(req).s, cwdLive).path

\* The file content of a successful read or file load.
ContentRead(body) ==
    IF "result" \in DOMAIN body THEN body["result"].json ELSE body["content"].json

\* A read tool call or a load of the file resource.
FileRead ==
    \/ ToolCall(NameRead)
    \/ Dispatched /\ req.endpoint = "load-resource"
          /\ req.ResourceID = ID(NameFilesystem, NameFile)

\* C20: only the string "base64" selects base64. With any other encoding
\* (none, a value that is no string, another string) a write stores the
\* content as it is and succeeds, and a read or file load of an existing
\* file gives the bytes as they are with is_text true; with "base64" a write
\* stores the decoded content or fails on the decoding, and a read gives
\* the base64 of the bytes with is_text false.
C20_EncodingSelection ==
    /\ (ToolCall(NameWrite) /\ EncodingArg(req) # AStr("base64"))
       => /\ resp.body["status"] = "success"
          /\ fs[ResolvedTarget] = FileNode(req.Arguments.content.s)
    /\ (ToolCall(NameWrite) /\ EncodingArg(req) = AStr("base64"))
       => IF DecodeString(req.Arguments.content.s).err = ""
          THEN /\ resp.body["status"] = "success"
               /\ fs[ResolvedTarget] = FileNode(DecodeString(req.Arguments.content.s).data)
          ELSE /\ resp.body["status"] = "error"
               /\ resp.body["error"].message.format = "Error decoding base64 content: %s"
    /\ (FileRead /\ ResolvedTarget \in DOMAIN fs)
       => /\ resp.body["status"] = "success"
          /\ ContentRead(resp.body).is_text = (EncodingArg(req) # AStr("base64"))
          /\ ContentRead(resp.body).content
                = (IF EncodingArg(req) = AStr("base64")
                   THEN EncodeToString(fs[ResolvedTarget].data)
                   ELSE fs[ResolvedTarget].data)

\* "QQ==" written with encoding "BASE64" is stored as the four characters.
C20_Witness ==
    /\ ToolCall(NameWrite)
    /\ EncodingArg(req) = AStr("BASE64")
    /\ req.Arguments.content.s = <<81, 81, 61, 61>>
    /\ resp.body["status"] = "success"
    /\ fs[ResolvedTarget] = FileNode(<<81, 81, 61, 61>>)

====
